---- MODULE Spec2Model ----
(***************************************************************************)
(* Matching and request lifecycle of VolunteerMatchingService              *)
(* (src/src/services/volunteer_matching.py): the opportunity, match        *)
(* request and match stores and the operations that change them.           *)
(***************************************************************************)
EXTENDS Integers, Sequences, FiniteSets, TLC

\* ---------------------------------------------------------------- bounds
MaxOpps == 1
MaxRequests == 3
MaxTime == 1
MaxWindows == 3

\* ------------------------------------------------------------- constants
\* Optional values: None is the empty tuple, a present value v is <<v>>.
None == << >>
Some(v) == <<v>>
\* Ids count from 1; NoId stands for an absent id, user or opportunity.
NoId == 0

PENDING == "PENDING"
ACCEPTED == "ACCEPTED"
REJECTED == "REJECTED"
EXPIRED == "EXPIRED"

MatchStatus == {PENDING, ACCEPTED, REJECTED, EXPIRED}

Sample1MaxSlots == 20
Sample2MaxSlots == 15
Sample3MaxSlots == 8
TitleMaxLen == 100
DescriptionMaxLen == 500
DisplayNameMaxLen == 100
PhoneMaxLen == 20
SkillsLimit == 50
TagsLimit == 20

\* _initialize_sample_data: the three opportunities every service starts with
\* A stored title is the set of the words _calculate_preference_score looks
\* for ("lead", "park", "cleanup", "outdoor") that occur in title.lower().
\* The titles are "Park Cleanup Volunteer", "Food Distribution Assistant" and
\* "Senior Companion".
SampleOpportunities ==
    << [title |-> {"park", "cleanup"},
        required_skills |-> <<"Physical Labor", "Environmental Awareness">>,
        min_hours |-> Some(4),
        max_slots |-> Some(Sample1MaxSlots)],
       [title |-> {},
        required_skills |-> <<"Customer Service", "Organization">>,
        min_hours |-> Some(3),
        max_slots |-> Some(Sample2MaxSlots)],
       [title |-> {},
        required_skills |-> <<"Communication", "Patience">>,
        min_hours |-> Some(2),
        max_slots |-> Some(Sample3MaxSlots)] >>

SampleCount == Len(SampleOpportunities)

\* Scores are floats between 0.0 and 1.0. A component score is held as a whole
\* number of sixtieths (ScoreOne is 1.0) and a total score, the sum of
\* components weighted in tenths, as a whole number of six-hundredths, so
\* that every score below is exact; the rounding of float arithmetic is not
\* modelled.
ScoreOne == 60
Tenths(n) == (n * ScoreOne) \div 10

\* An availability window: weekday 0..6, start and end as hours of the day.
Window(weekday, start, end) == [weekday |-> weekday, start |-> start, end |-> end]

\* ProfileManagementService._initialize_sample_data: the availability of the
\* three profiles every service starts with. The other fields of a profile
\* are written by the operations below and read by none of them.
SampleProfiles ==
    (3 :> [availability |-> <<Window(1, 9, 17), Window(5, 10, 16), Window(6, 8, 12)>>])
    @@ (4 :> [availability |-> <<Window(2, 14, 18), Window(3, 10, 15), Window(6, 9, 14)>>])
    @@ (5 :> [availability |-> <<Window(0, 18, 21), Window(4, 17, 20), Window(5, 8, 18)>>])

\* ---------------------------------------------------------------- inputs
\* the volunteers V and W making the calls
Users == {1, 2}
Threads == {"t1", "t2"}

\* Opportunity ids are positions in the opportunity store (the store only
\* grows); an id beyond the store is an id that does not exist. Requests are
\* made on the opportunities create_opportunity adds and on one id that never
\* exists.
OppInputs == (SampleCount + 1)..(SampleCount + MaxOpps + 1)
\* The same for request ids and match ids.
RequestIdInputs == 1..MaxRequests
MatchIdInputs == 1..MaxRequests
DaysInputs == {0, 1}

\* create_opportunity(title, description, min_hours, max_slots), with title as
\* <<len(title), len(title.strip())>> and description as len(description):
\* the valid calls for each capacity, and one call failing each validation.
\* the third volunteer of the capacity scenario
Volunteers == Users \cup {3}
\* the caller that approves while a sweep runs
Approver == "t1"

\* Profiles: skills and tags as given (any case), availability as the number
\* of availability windows.
StrongProfile(u) ==
    [user_id |-> u, skills |-> <<"Python", "COMMUNICATION">>,
     tags |-> <<"Experience">>, availability |-> 2]
WeakProfile(u) ==
    [user_id |-> u, skills |-> << >>, tags |-> << >>, availability |-> 0]
ProfileInputs == {StrongProfile(u) : u \in Users} \cup {WeakProfile(u) : u \in Users}
\* lists of two volunteers, the first a weak one: the second scores the same
\* or higher
ProfileListInputs ==
    {pq \in {WeakProfile(u) : u \in Users} \X ProfileInputs :
        pq[1].user_id # pq[2].user_id}
\* Arguments of calculate_match_score: profiles and opportunities that need
\* not be stored.
SkillsInputs ==
    {<< >>, <<"Python">>, <<"PYTHON", "Java">>, <<"python", "Java", "Communication">>}
TagsInputs ==
    {<< >>, <<"Experience">>, <<"experience", "Leadership", "OUTDOORS">>}
WindowCountInputs == {0, 2}
ScoreProfileInputs ==
    {[user_id |-> 1, skills |-> skills, tags |-> tags, availability |-> n] :
        skills \in SkillsInputs, tags \in TagsInputs, n \in WindowCountInputs}
RequiredSkillsInputs ==
    {<< >>, <<"python">>, <<"python", "Go">>, <<"Python", "python">>,
     <<"Java", "Go", "Rust">>}
ScoreOpportunityInputs ==
    {[title |-> title, required_skills |-> required_skills,
      min_hours |-> min_hours, max_slots |-> None] :
        title \in {{}, {"park", "lead"}},
        required_skills \in RequiredSkillsInputs,
        min_hours \in {None, Some(10)}}

\* Profile operations are asked for a user without a profile (it can be
\* created) and for a user that never gets one.
ProfileUserInputs == {1}
UnknownUser == 2
\* windows: two that overlap, one that starts where the first ends, one on
\* another day, one with weekday 7 and one that ends before it starts
WindowInputs ==
    {Window(1, 9, 12), Window(1, 10, 13), Window(1, 12, 17), Window(2, 9, 12),
     Window(7, 9, 12), Window(1, 12, 9)}
AvailabilityInputs ==
    {None, Some(<< >>), Some(<<Window(1, 9, 12)>>),
     Some(<<Window(1, 9, 12), Window(1, 12, 17)>>),
     Some(<<Window(1, 9, 12), Window(1, 10, 13)>>),
     Some(<<Window(1, 9, 12), Window(7, 9, 12)>>)}
ValidName == <<4, 4>>
ValidPhone == Some(<<12, TRUE>>)
\* display_name, phone, number of skills, number of tags
ProfileFieldInputs ==
    {<<ValidName, ValidPhone, Some(3), Some(2)>>,
     <<ValidName, None, None, None>>,
     <<(<<0, 0>>), None, None, None>>,
     <<(<<DisplayNameMaxLen + 1, DisplayNameMaxLen + 1>>), None, None, None>>,
     <<ValidName, Some(<<PhoneMaxLen + 1, TRUE>>), None, None>>,
     <<ValidName, Some(<<12, FALSE>>), None, None>>,
     <<ValidName, None, Some(SkillsLimit + 1), None>>,
     <<ValidName, None, None, Some(TagsLimit + 1)>>}

\* min_score 0.0 and 0.5 (the default)
MinScoreInputs == {0, 5 * ScoreOne}

ValidTitle == <<4, 4, {}>>
MaxSlotsInputs == {None, Some(1), Some(2)}
CreateOpportunityInputs ==
    {<<ValidTitle, None, None, Some(4), max_slots>> : max_slots \in MaxSlotsInputs}
    \cup {<<ValidTitle, Some(DescriptionMaxLen), Some(<<"Python">>), None, None>>,
          <<(<<0, 0, {}>>), None, None, None, None>>,
          <<(<<2, 0, {}>>), None, None, None, None>>,
          <<(<<TitleMaxLen + 1, TitleMaxLen + 1, {}>>), None, None, None, None>>,
          <<ValidTitle, Some(DescriptionMaxLen + 1), None, None, None>>,
          <<ValidTitle, None, None, Some(0), None>>,
          <<ValidTitle, None, None, None, Some(0)>>}

VARIABLES
    opportunities,   \* self._opportunities: sequence of [max_slots]
    match_requests,  \* self._match_requests: sequence (dict order) of requests
    matches,         \* self._matches: the set of stored matches, each with its id
    next_match_id,   \* the match ids MatchId.new() has handed out so far
    now,             \* datetime.now(), in days
    ret,             \* what the last call returned or raised
    pc,              \* per caller: position inside approve_match_request
    local,           \* per caller: the request being approved
    sweep,           \* the locals of a running expire_old_requests call
    profile_store    \* ProfileManagementService._profiles: user id -> profile

vars ==
    <<opportunities, match_requests, matches, next_match_id, now, ret, pc, local,
      sweep, profile_store>>

\* ret: the call made by the last step: op, its id or days argument (arg), the
\* (volunteer, opportunity) pair it was about (user, opp: the arguments, or
\* the pair of the request or match that arg names), the id of the object it
\* created (made), the count it returned (count) and its return value or the
\* message of the error it raised (out).
Result(op, user, opp, arg, made, count, out) ==
    [op |-> op, user |-> user, opp |-> opp, arg |-> arg, made |-> made,
     count |-> count, out |-> out, given |-> << >>, found |-> << >>]

NoCall == Result("none", NoId, NoId, NoId, NoId, 0, "none")

\* expire_old_requests before it is called: days_old, cutoff_date, the length
\* of the dict the loop iterates, the position of the loop and the requests
\* it has counted (expired_count is their number).
NoSweep ==
    [pc |-> "start", days_old |-> 0, cutoff_date |-> 0, size |-> 0, i |-> 0,
     expired |-> {}]

Min(S) == CHOOSE x \in S : \A y \in S : x <= y

\* ------------------------------------------------------------------ Init
Init ==
    /\ opportunities = SampleOpportunities
    /\ match_requests = << >>
    /\ matches = {}
    /\ next_match_id = 1
    /\ now = 0
    /\ ret = NoCall
    /\ pc = [t \in Threads |-> "start"]
    /\ local = [t \in Threads |-> NoId]
    /\ sweep = NoSweep
    /\ profile_store = SampleProfiles

\* --------------------------------------------------------- opportunities
\* get_opportunity_by_id(o) is not None
OpportunityExists(o) == o \in DOMAIN opportunities

CreateOpportunityError(title, description, min_hours, max_slots) ==
    IF title[1] = 0 \/ title[2] = 0 THEN "Opportunity title is required"
    ELSE IF title[1] > TitleMaxLen
        THEN "Opportunity title must be 100 characters or less"
    ELSE IF description # None /\ description[1] > DescriptionMaxLen
        THEN "Opportunity description must be 500 characters or less"
    ELSE IF min_hours # None /\ min_hours[1] <= 0
        THEN "Minimum hours must be greater than 0"
    ELSE IF max_slots # None /\ max_slots[1] <= 0
        THEN "Maximum slots must be greater than 0"
    ELSE "ok"

create_opportunity(title, description, required_skills, min_hours, max_slots) ==
    LET err == CreateOpportunityError(title, description, min_hours, max_slots)
        oid == Len(opportunities) + 1
    IN  /\ IF err # "ok"
           THEN /\ ret' = Result("create_opportunity", NoId, NoId, NoId, NoId, 0, err)
                /\ UNCHANGED opportunities
           ELSE /\ oid <= SampleCount + MaxOpps
                /\ opportunities' =
                      Append(opportunities,
                             [title |-> title[3],
                              required_skills |->
                                 IF required_skills = None THEN << >>
                                 ELSE required_skills[1],
                              min_hours |-> min_hours,
                              max_slots |-> max_slots])
                /\ ret' = Result("create_opportunity", NoId, NoId, NoId, oid, 0, "ok")
        /\ UNCHANGED <<match_requests, matches, next_match_id, now, pc,
                       local, sweep, profile_store>>

\* -------------------------------------------------------- match requests
RequestsOfPair(u, o) ==
    {i \in DOMAIN match_requests :
        /\ match_requests[i].user_id = u
        /\ match_requests[i].opportunity_id = o}

\* _find_user_request_for_opportunity: the first request of the pair in
\* the order of the request store, or None.
find_user_request_for_opportunity(u, o) ==
    IF RequestsOfPair(u, o) = {} THEN NoId ELSE Min(RequestsOfPair(u, o))

\* mutant: any earlier request of the pair blocks a new one
CreateMatchRequestError_AnyStatus(u, o) ==
    IF ~OpportunityExists(o) THEN "Opportunity does not exist"
    ELSE IF find_user_request_for_opportunity(u, o) # NoId
        THEN "User already has an active request for this opportunity"
    ELSE "ok"

\* mutant: the opportunity is not looked up before the request is stored
CreateMatchRequestError_NoLookup(u, o) ==
    LET existing == find_user_request_for_opportunity(u, o)
    IN  IF existing # NoId
           /\ match_requests[existing].status \in {PENDING, ACCEPTED}
        THEN "User already has an active request for this opportunity"
        ELSE "ok"

CreateMatchRequestError(u, o) ==
    LET existing == find_user_request_for_opportunity(u, o)
    IN  IF ~OpportunityExists(o) THEN "Opportunity does not exist"
        ELSE IF existing # NoId
                /\ match_requests[existing].status \in {PENDING, ACCEPTED}
            THEN "User already has an active request for this opportunity"
        ELSE "ok"

RequestUser(r) ==
    IF r \in DOMAIN match_requests THEN match_requests[r].user_id ELSE NoId

RequestOpp(r) ==
    IF r \in DOMAIN match_requests THEN match_requests[r].opportunity_id ELSE NoId

NewMatchRequest(u, o) ==
    [user_id |-> u, opportunity_id |-> o, requested_at |-> now,
     status |-> PENDING, score |-> None]

create_match_request(u, o) ==
    LET err == CreateMatchRequestError(u, o)
        rid == Len(match_requests) + 1
    IN  /\ IF err # "ok"
           THEN /\ ret' = Result("create_match_request", u, o, NoId, NoId, 0, err)
                /\ UNCHANGED match_requests
           ELSE /\ rid <= MaxRequests
                /\ match_requests' = Append(match_requests, NewMatchRequest(u, o))
                /\ ret' = Result("create_match_request", u, o, NoId, rid, 0, "ok")
        /\ UNCHANGED <<opportunities, matches, next_match_id, now, pc, local,
                       sweep, profile_store>>

\* ------------------------------------------------------------- approval
\* _count_matches_for_opportunity
count_matches_for_opportunity(o) ==
    Cardinality({m \in matches : m.opportunity_id = o /\ m.status = ACCEPTED})

\* mutant: the capacity test lets one approval too many through
AtCapacity_OffByOne(o) ==
    LET max_slots == opportunities[o].max_slots
    IN  /\ max_slots # None
        /\ max_slots[1] # 0
        /\ count_matches_for_opportunity(o) > max_slots[1]

\* lines 269-272: "if opportunity.max_slots:" is false for None and for 0
AtCapacity(o) ==
    LET max_slots == opportunities[o].max_slots
    IN  /\ max_slots # None
        /\ max_slots[1] # 0
        /\ count_matches_for_opportunity(o) >= max_slots[1]

\* mutant: the status of the request is not tested
ApproveOutcome_NoStatusCheck(r) ==
    IF r \notin DOMAIN match_requests THEN "None"
    ELSE IF ~OpportunityExists(match_requests[r].opportunity_id)
        THEN "Opportunity no longer exists"
    ELSE IF AtCapacity(match_requests[r].opportunity_id)
        THEN "Opportunity is at maximum capacity"
    ELSE "ok"

\* mutant: an unknown request id raises instead of returning None
ApproveOutcome_RaisesNotFound(r) ==
    IF r \notin DOMAIN match_requests THEN "Match request not found"
    ELSE IF match_requests[r].status # PENDING
        THEN "Can only approve pending match requests"
    ELSE IF ~OpportunityExists(match_requests[r].opportunity_id)
        THEN "Opportunity no longer exists"
    ELSE IF AtCapacity(match_requests[r].opportunity_id)
        THEN "Opportunity is at maximum capacity"
    ELSE "ok"

\* mutant: a full opportunity makes the call return None instead of raising
ApproveOutcome_NoneAtCapacity(r) ==
    IF r \notin DOMAIN match_requests THEN "None"
    ELSE IF match_requests[r].status # PENDING
        THEN "Can only approve pending match requests"
    ELSE IF ~OpportunityExists(match_requests[r].opportunity_id)
        THEN "Opportunity no longer exists"
    ELSE IF AtCapacity(match_requests[r].opportunity_id)
        THEN "None"
    ELSE "ok"

\* approve_match_request, lines 257-272: what the call on request id r
\* returns or raises in this state ("ok": it goes on to create the Match)
ApproveOutcome(r) ==
    IF r \notin DOMAIN match_requests THEN "None"
    ELSE IF match_requests[r].status # PENDING
        THEN "Can only approve pending match requests"
    ELSE IF ~OpportunityExists(match_requests[r].opportunity_id)
        THEN "Opportunity no longer exists"
    ELSE IF AtCapacity(match_requests[r].opportunity_id)
        THEN "Opportunity is at maximum capacity"
    ELSE "ok"

\* line 275
SetStatus(requests, r, status) == [requests EXCEPT ![r].status = status]

\* mutant: the match is stored with the status the request had
NewMatch_RequestStatus(r) ==
    [id |-> next_match_id,
     user_id |-> match_requests[r].user_id,
     opportunity_id |-> match_requests[r].opportunity_id,
     status |-> match_requests[r].status,
     score |-> match_requests[r].score]

\* lines 278-286
NewMatch(r) ==
    [id |-> next_match_id,
     user_id |-> match_requests[r].user_id,
     opportunity_id |-> match_requests[r].opportunity_id,
     status |-> ACCEPTED,
     score |-> match_requests[r].score]

ApproveResult(r, made, out) ==
    Result("approve_match_request", RequestUser(r), RequestOpp(r), r, made, 0, out)

\* mutant: the status is written before the opportunity and its capacity are
\* checked
approve_match_request_StatusFirst(r) ==
    LET out == ApproveOutcome(r)
    IN  /\ IF out \in {"None", "Can only approve pending match requests"}
           THEN /\ ret' = ApproveResult(r, NoId, out)
                /\ UNCHANGED <<match_requests, matches, next_match_id>>
           ELSE IF out # "ok"
           THEN /\ match_requests' = SetStatus(match_requests, r, ACCEPTED)
                /\ ret' = ApproveResult(r, NoId, out)
                /\ UNCHANGED <<matches, next_match_id>>
           ELSE /\ match_requests' = SetStatus(match_requests, r, ACCEPTED)
                /\ matches' = matches \cup {NewMatch(r)}
                /\ next_match_id' = next_match_id + 1
                /\ ret' = ApproveResult(r, next_match_id, "ok")
        /\ UNCHANGED <<opportunities, now, pc, local, sweep, profile_store>>

approve_match_request(r) ==
    LET out == ApproveOutcome(r)
    IN  /\ IF out # "ok"
           THEN /\ ret' = ApproveResult(r, NoId, out)
                /\ UNCHANGED <<match_requests, matches, next_match_id>>
           ELSE /\ match_requests' = SetStatus(match_requests, r, ACCEPTED)
                /\ matches' = matches \cup {NewMatch(r)}
                /\ next_match_id' = next_match_id + 1
                /\ ret' = ApproveResult(r, next_match_id, "ok")
        /\ UNCHANGED <<opportunities, now, pc, local, sweep, profile_store>>

\* ------------------------------------------------------------- rejection
\* mutant: the status of the request is not tested
RejectOutcome_NoStatusCheck(r) ==
    IF r \notin DOMAIN match_requests THEN "False" ELSE "True"

\* mutant: an unknown request id raises instead of returning False
RejectOutcome_RaisesNotFound(r) ==
    IF r \notin DOMAIN match_requests THEN "Match request not found"
    ELSE IF match_requests[r].status # PENDING
        THEN "Can only reject pending match requests"
    ELSE "True"

RejectOutcome(r) ==
    IF r \notin DOMAIN match_requests THEN "False"
    ELSE IF match_requests[r].status # PENDING
        THEN "Can only reject pending match requests"
    ELSE "True"

reject_match_request(r) ==
    LET out == RejectOutcome(r)
    IN  /\ IF out = "True"
           THEN match_requests' = SetStatus(match_requests, r, REJECTED)
           ELSE UNCHANGED match_requests
        /\ ret' = Result("reject_match_request", RequestUser(r), RequestOpp(r),
                         r, NoId, 0, out)
        /\ UNCHANGED <<opportunities, matches, next_match_id, now, pc, local,
                       sweep, profile_store>>

\* ---------------------------------------------------------- cancellation
MatchExists(m) == \E x \in matches : x.id = m

MatchById(m) == CHOOSE x \in matches : x.id = m

\* mutant: cancel_match leaves the match in the store
MatchesAfterCancel_Kept(m) == matches

\* line 342
MatchesAfterCancel(m) == matches \ {MatchById(m)}

\* lines 345-350: the first ACCEPTED request of the match's pair, in the
\* order of the request store, becomes REJECTED
FirstAcceptedRequest(u, o) ==
    LET accepted == {i \in RequestsOfPair(u, o) : match_requests[i].status = ACCEPTED}
    IN  IF accepted = {} THEN NoId ELSE Min(accepted)

\* mutant: cancel_match reopens the request instead of rejecting it
RequestsAfterCancel_Reopen(m) ==
    LET r == FirstAcceptedRequest(MatchById(m).user_id, MatchById(m).opportunity_id)
    IN  IF r = NoId THEN match_requests ELSE SetStatus(match_requests, r, PENDING)

\* mutant: cancel_match forgets the request
RequestsAfterCancel_Untouched(m) == match_requests

RequestsAfterCancel(m) ==
    LET r == FirstAcceptedRequest(MatchById(m).user_id, MatchById(m).opportunity_id)
    IN  IF r = NoId THEN match_requests ELSE SetStatus(match_requests, r, REJECTED)

cancel_match(m) ==
    /\ IF ~MatchExists(m)
       THEN /\ ret' = Result("cancel_match", NoId, NoId, m, NoId, 0, "False")
            /\ UNCHANGED <<match_requests, matches>>
       ELSE /\ matches' = MatchesAfterCancel(m)
            /\ match_requests' = RequestsAfterCancel(m)
            /\ ret' = Result("cancel_match", MatchById(m).user_id,
                             MatchById(m).opportunity_id, m, NoId, 0, "True")
    /\ UNCHANGED <<opportunities, next_match_id, now, pc, local, sweep, profile_store>>

\* ---------------------------------------------------------------- expiry
\* mutant: the sweep forgets to look at the status
IsStale_AnyStatus(request, days_old) ==
    request.requested_at < now - days_old

\* mutant: a request made exactly at the cutoff is swept too
IsStale_AtCutoff(request, days_old) ==
    /\ request.status = PENDING
    /\ request.requested_at <= now - days_old

\* lines 357 and 361-362
IsStale(request, days_old) ==
    /\ request.status = PENDING
    /\ request.requested_at < now - days_old

StaleRequests(days_old) ==
    {i \in DOMAIN match_requests : IsStale(match_requests[i], days_old)}

expire_old_requests(days_old) ==
    /\ match_requests' =
          [i \in DOMAIN match_requests |->
              IF i \in StaleRequests(days_old)
              THEN [match_requests[i] EXCEPT !.status = EXPIRED]
              ELSE match_requests[i]]
    /\ ret' = Result("expire_old_requests", NoId, NoId, days_old, NoId,
                     Cardinality(StaleRequests(days_old)), "ok")
    /\ UNCHANGED <<opportunities, matches, next_match_id, now, pc, local,
                   sweep, profile_store>>

\* ----------------------------------------------------------------- clock
\* datetime.now() advances between calls
Tick ==
    /\ now < MaxTime
    /\ now' = now + 1
    /\ ret' = NoCall
    /\ UNCHANGED <<opportunities, match_requests, matches, next_match_id, pc,
                   local, sweep, profile_store>>

\* --------------------------------------------------------------- scoring
\* str.lower() on the skill and tag names in use
Lower(str) ==
    CASE str \in {"Python", "PYTHON"} -> "python"
      [] str \in {"Communication", "COMMUNICATION"} -> "communication"
      [] str = "Patience" -> "patience"
      [] str = "Organization" -> "organization"
      [] str = "Customer Service" -> "customer service"
      [] str = "Physical Labor" -> "physical labor"
      [] str = "Environmental Awareness" -> "environmental awareness"
      [] str = "Experience" -> "experience"
      [] str = "Leadership" -> "leadership"
      [] str \in {"Outdoors", "OUTDOORS"} -> "outdoors"
      [] str = "Java" -> "java"
      [] str = "Go" -> "go"
      [] str = "Rust" -> "rust"
      [] OTHER -> str

LowerSet(strs) == {Lower(strs[i]) : i \in DOMAIN strs}

\* mutant: the empty profile is tested before the empty requirement
calculate_skill_match_score_ProfileFirst(profile_skills, required_skills) ==
    IF profile_skills = << >> THEN 0
    ELSE IF required_skills = << >> THEN ScoreOne
    ELSE (Cardinality(LowerSet(profile_skills) \cap LowerSet(required_skills))
             * ScoreOne) \div Cardinality(LowerSet(required_skills))

\* mutant: the required skills the profile lacks are counted
calculate_skill_match_score_Missing(profile_skills, required_skills) ==
    IF required_skills = << >> THEN ScoreOne
    ELSE IF profile_skills = << >> THEN 0
    ELSE (Cardinality(LowerSet(required_skills) \ LowerSet(profile_skills))
             * ScoreOne) \div Cardinality(LowerSet(required_skills))

calculate_skill_match_score(profile_skills, required_skills) ==
    IF required_skills = << >> THEN ScoreOne
    ELSE IF profile_skills = << >> THEN 0
    ELSE (Cardinality(LowerSet(profile_skills) \cap LowerSet(required_skills))
             * ScoreOne) \div Cardinality(LowerSet(required_skills))

\* mutant: the sum of the bonuses is not capped
calculate_preference_score_Uncapped(profile_tags, opportunity) ==
    IF profile_tags = << >> THEN Tenths(5)
    ELSE LET tag_set == LowerSet(profile_tags)
         IN  Tenths(5)
                 + (IF "experience" \in tag_set THEN Tenths(2) ELSE 0)
                 + (IF "leadership" \in tag_set /\ "lead" \in opportunity.title
                    THEN Tenths(2) ELSE 0)
                 + (IF /\ "outdoors" \in tag_set
                       /\ opportunity.title \cap {"park", "cleanup", "outdoor"} # {}
                    THEN Tenths(3) ELSE 0)

calculate_preference_score(profile_tags, opportunity) ==
    IF profile_tags = << >> THEN Tenths(5)
    ELSE LET tag_set == LowerSet(profile_tags)
             score == Tenths(5)
                 + (IF "experience" \in tag_set THEN Tenths(2) ELSE 0)
                 + (IF "leadership" \in tag_set /\ "lead" \in opportunity.title
                    THEN Tenths(2) ELSE 0)
                 + (IF /\ "outdoors" \in tag_set
                       /\ opportunity.title \cap {"park", "cleanup", "outdoor"} # {}
                    THEN Tenths(3) ELSE 0)
         IN  IF score < ScoreOne THEN score ELSE ScoreOne

calculate_match_score(profile, opportunity) ==
    LET skill_score ==
            calculate_skill_match_score(profile.skills, opportunity.required_skills)
        availability_score ==
            IF profile.availability # 0 THEN Tenths(8) ELSE Tenths(3)
        preference_score == calculate_preference_score(profile.tags, opportunity)
        distance_score == Tenths(7)
    IN  [total_score |-> skill_score * 4 + availability_score * 3
                            + preference_score * 2 + distance_score * 1,
         skill_match_score |-> skill_score,
         availability_score |-> availability_score,
         preference_score |-> preference_score,
         distance_score |-> distance_score]

\* A call of calculate_match_score: ret.given holds the arguments, ret.found
\* the MatchScore returned.
score_call(profile, opportunity) ==
    /\ ret' = [Result("calculate_match_score", profile.user_id, NoId, NoId,
                      NoId, 0, "ok")
                  EXCEPT !.given = <<profile, opportunity>>,
                         !.found = <<calculate_match_score(profile, opportunity)>>]
    /\ UNCHANGED <<opportunities, match_requests, matches, next_match_id, now,
                   pc, local, sweep, profile_store>>

NextScore ==
    \E profile \in ScoreProfileInputs, opportunity \in ScoreOpportunityInputs :
        score_call(profile, opportunity)

SpecScore == Init /\ [][NextScore]_vars

\* -------------------------------------------------------------- matching
\* lines 216-220 and 240-244: the candidate is passed over
HasActiveRequest(user_id, opportunity_id) ==
    LET existing == find_user_request_for_opportunity(user_id, opportunity_id)
    IN  /\ existing # NoId
        /\ match_requests[existing].status \in {PENDING, ACCEPTED}

\* list.sort(key=total_score, reverse=True): stable, so an entry goes behind
\* the entries before it that score the same
\* mutant: an entry goes in front of the entries that score the same
InsertByTotalScore_Unstable(sorted, entry) ==
    LET k == Cardinality({j \in DOMAIN sorted :
                 sorted[j].score.total_score > entry.score.total_score})
    IN  SubSeq(sorted, 1, k) \o <<entry>> \o SubSeq(sorted, k + 1, Len(sorted))

InsertByTotalScore(sorted, entry) ==
    LET k == Cardinality({j \in DOMAIN sorted :
                 sorted[j].score.total_score >= entry.score.total_score})
    IN  SubSeq(sorted, 1, k) \o <<entry>> \o SubSeq(sorted, k + 1, Len(sorted))

RECURSIVE SortByTotalScore(_)
SortByTotalScore(entries) ==
    IF entries = << >> THEN << >>
    ELSE InsertByTotalScore(
             SortByTotalScore(SubSeq(entries, 1, Len(entries) - 1)),
             entries[Len(entries)])

MatchingVolunteers(opportunity_id, profiles, min_score) ==
    IF ~OpportunityExists(opportunity_id) THEN << >>
    ELSE LET entries ==
                 [i \in DOMAIN profiles |->
                     [candidate |-> profiles[i],
                      score |-> calculate_match_score(
                                    profiles[i], opportunities[opportunity_id])]]
             Kept(e) ==
                 /\ ~HasActiveRequest(e.candidate.user_id, opportunity_id)
                 /\ e.score.total_score >= min_score
         IN  SortByTotalScore(SelectSeq(entries, Kept))

MatchingOpportunities(user_id, profile, min_score) ==
    LET entries ==
            [o \in DOMAIN opportunities |->
                [candidate |-> o,
                 score |-> calculate_match_score(profile, opportunities[o])]]
        Kept(e) ==
            /\ ~HasActiveRequest(user_id, e.candidate)
            /\ e.score.total_score >= min_score
    IN  SortByTotalScore(SelectSeq(entries, Kept))

find_matching_volunteers(opportunity_id, profiles, min_score) ==
    /\ ret' = [Result("find_matching_volunteers", NoId, opportunity_id,
                      min_score, NoId, 0, "ok")
                  EXCEPT !.given = profiles,
                         !.found = MatchingVolunteers(opportunity_id, profiles,
                                                      min_score)]
    /\ UNCHANGED <<opportunities, match_requests, matches, next_match_id, now,
                   pc, local, sweep, profile_store>>

find_matching_opportunities(user_id, profile, min_score) ==
    /\ ret' = [Result("find_matching_opportunities", user_id, NoId, min_score,
                      NoId, 0, "ok")
                  EXCEPT !.given = <<profile>>,
                         !.found = MatchingOpportunities(user_id, profile,
                                                         min_score)]
    /\ UNCHANGED <<opportunities, match_requests, matches, next_match_id, now,
                   pc, local, sweep, profile_store>>

\* -------------------------------------------------------------- profile_store
\* ProfileManagementService (src/src/services/profile_management.py)
validate_availability_window(window) ==
    IF window.weekday < 0 \/ window.weekday > 6 THEN FALSE
    ELSE IF window.start >= window.end THEN FALSE
    ELSE TRUE

windows_overlap(window1, window2) ==
    IF window1.weekday # window2.weekday THEN FALSE
    ELSE ~(window1.end <= window2.start \/ window2.end <= window1.start)

AllWindowsValid(availability) ==
    \A i \in DOMAIN availability : validate_availability_window(availability[i])

\* phone is <<length, whether it matches the pattern of _validate_phone>>
PhoneError(phone) ==
    IF phone # None /\ phone[1][1] > 0 /\ phone[1][1] > PhoneMaxLen
        THEN "Phone number must be 20 characters or less"
    ELSE IF phone # None /\ phone[1][1] > 0 /\ ~phone[1][2]
        THEN "Phone number format is invalid"
    ELSE "ok"

\* lines 86-111
CreateProfileError(user_id, display_name, phone, skills, tags, availability) ==
    IF user_id \in DOMAIN profile_store THEN "Profile already exists for this user"
    ELSE IF display_name[1] = 0 \/ display_name[2] = 0
        THEN "Display name is required"
    ELSE IF display_name[1] > DisplayNameMaxLen
        THEN "Display name must be 100 characters or less"
    ELSE IF PhoneError(phone) # "ok" THEN PhoneError(phone)
    ELSE IF skills # None /\ skills[1] > SkillsLimit
        THEN "Cannot have more than 50 skills"
    ELSE IF tags # None /\ tags[1] > TagsLimit
        THEN "Cannot have more than 20 tags"
    ELSE IF availability # None /\ ~AllWindowsValid(availability[1])
        THEN "Invalid availability window"
    ELSE "ok"

ProfileResult(op, user_id, out) == Result(op, user_id, NoId, NoId, NoId, 0, out)

create_profile(user_id, display_name, phone, skills, tags, availability) ==
    LET err == CreateProfileError(user_id, display_name, phone, skills, tags,
                                  availability)
    IN  /\ ret' = ProfileResult("create_profile", user_id, err)
        /\ IF err # "ok" THEN UNCHANGED profile_store
           ELSE profile_store' =
                   profile_store @@ (user_id :>
                       [availability |-> IF availability = None THEN << >>
                                         ELSE availability[1]])
        /\ UNCHANGED <<opportunities, match_requests, matches, next_match_id,
                       now, pc, local, sweep>>

\* lines 151-181: the fields are checked and assigned in turn, availability
\* last
UpdateProfileError(user_id, display_name, phone, skills, tags, availability) ==
    IF user_id \notin DOMAIN profile_store THEN "None"
    ELSE IF display_name # None
            /\ (display_name[1][1] = 0 \/ display_name[1][2] = 0)
        THEN "Display name cannot be empty"
    ELSE IF display_name # None /\ display_name[1][1] > DisplayNameMaxLen
        THEN "Display name must be 100 characters or less"
    ELSE IF PhoneError(phone) # "ok" THEN PhoneError(phone)
    ELSE IF skills # None /\ skills[1] > SkillsLimit
        THEN "Cannot have more than 50 skills"
    ELSE IF tags # None /\ tags[1] > TagsLimit
        THEN "Cannot have more than 20 tags"
    ELSE IF availability # None /\ ~AllWindowsValid(availability[1])
        THEN "Invalid availability window"
    ELSE "ok"

update_profile(user_id, display_name, phone, skills, tags, availability) ==
    LET err == UpdateProfileError(user_id, display_name, phone, skills, tags,
                                  availability)
    IN  /\ ret' = ProfileResult("update_profile", user_id, err)
        /\ IF err = "ok" /\ availability # None
           THEN profile_store' =
                   [profile_store EXCEPT ![user_id].availability = availability[1]]
           ELSE UNCHANGED profile_store
        /\ UNCHANGED <<opportunities, match_requests, matches, next_match_id,
                       now, pc, local, sweep>>

\* lines 261-272
AddWindowOutcome(user_id, window) ==
    IF user_id \notin DOMAIN profile_store THEN "False"
    ELSE IF ~validate_availability_window(window)
        THEN "Invalid availability window"
    ELSE IF \E i \in DOMAIN profile_store[user_id].availability :
               /\ profile_store[user_id].availability[i].weekday = window.weekday
               /\ windows_overlap(profile_store[user_id].availability[i], window)
        THEN "Availability window overlaps with existing window"
    ELSE "True"

add_availability_window(user_id, window) ==
    LET out == AddWindowOutcome(user_id, window)
    IN  /\ ret' = ProfileResult("add_availability_window", user_id, out)
        /\ IF out # "True" THEN UNCHANGED profile_store
           ELSE /\ Len(profile_store[user_id].availability) < MaxWindows
                /\ profile_store' =
                      [profile_store EXCEPT ![user_id].availability = Append(@, window)]
        /\ UNCHANGED <<opportunities, match_requests, matches, next_match_id,
                       now, pc, local, sweep>>

\* lines 286-293: the first window equal to the given one is removed
remove_availability_window(user_id, window) ==
    LET found == IF user_id \notin DOMAIN profile_store THEN {}
                 ELSE {i \in DOMAIN profile_store[user_id].availability :
                          profile_store[user_id].availability[i] = window}
    IN  /\ ret' = ProfileResult("remove_availability_window", user_id,
                                IF found = {} THEN "False" ELSE "True")
        /\ IF found = {} THEN UNCHANGED profile_store
           ELSE profile_store' =
                   [profile_store EXCEPT ![user_id].availability =
                       SubSeq(@, 1, Min(found) - 1)
                           \o SubSeq(@, Min(found) + 1, Len(@))]
        /\ UNCHANGED <<opportunities, match_requests, matches, next_match_id,
                       now, pc, local, sweep>>

NextProfile ==
    \/ \E u \in ProfileUserInputs, f \in ProfileFieldInputs,
          availability \in AvailabilityInputs :
          create_profile(u, f[1], f[2], f[3], f[4], availability)
    \/ \E u \in ProfileUserInputs \cup {UnknownUser}, f \in ProfileFieldInputs,
          availability \in AvailabilityInputs :
          update_profile(u, Some(f[1]), f[2], f[3], f[4], availability)
    \/ \E u \in ProfileUserInputs \cup {UnknownUser}, window \in WindowInputs :
          add_availability_window(u, window)
    \/ \E u \in ProfileUserInputs \cup {UnknownUser}, window \in WindowInputs :
          remove_availability_window(u, window)

SpecProfile == Init /\ [][NextProfile]_vars

\* ------------------------------------------------- sequential specification
Next ==
    \/ \E in \in CreateOpportunityInputs :
          create_opportunity(in[1], in[2], in[3], in[4], in[5])
    \/ \E u \in Users, o \in OppInputs : create_match_request(u, o)
    \/ \E r \in RequestIdInputs : approve_match_request(r)
    \/ \E r \in RequestIdInputs : reject_match_request(r)
    \/ \E m \in MatchIdInputs : cancel_match(m)
    \/ \E days_old \in DaysInputs : expire_old_requests(days_old)
    \/ Tick

Spec == Init /\ [][Next]_vars

\* ------------------------------------------------- concurrent approvals
\* approve_match_request holds no lock and opens no transaction: between two
\* of its statements another caller's statements can run. Each caller of
\* Threads makes one approve_match_request call, a statement at a time.

\* lines 257-262
ApproveLoad(t, r) ==
    /\ pc[t] = "start"
    /\ local' = [local EXCEPT ![t] = r]
    /\ IF r \notin DOMAIN match_requests
       THEN /\ ret' = ApproveResult(r, NoId, "None")
            /\ pc' = [pc EXCEPT ![t] = "done"]
       ELSE IF match_requests[r].status # PENDING
       THEN /\ ret' = ApproveResult(r, NoId, "Can only approve pending match requests")
            /\ pc' = [pc EXCEPT ![t] = "done"]
       ELSE /\ pc' = [pc EXCEPT ![t] = "capacity"]
            /\ UNCHANGED ret
    /\ UNCHANGED <<opportunities, match_requests, matches, next_match_id,
                   now, sweep, profile_store>>

\* lines 265-272
ApproveCheckCapacity(t) ==
    /\ pc[t] = "capacity"
    /\ IF ~OpportunityExists(RequestOpp(local[t]))
       THEN /\ ret' = ApproveResult(local[t], NoId, "Opportunity no longer exists")
            /\ pc' = [pc EXCEPT ![t] = "done"]
       ELSE IF AtCapacity(RequestOpp(local[t]))
       THEN /\ ret' = ApproveResult(local[t], NoId, "Opportunity is at maximum capacity")
            /\ pc' = [pc EXCEPT ![t] = "done"]
       ELSE /\ pc' = [pc EXCEPT ![t] = "update"]
            /\ UNCHANGED ret
    /\ UNCHANGED <<opportunities, match_requests, matches, next_match_id,
                   now, local, sweep, profile_store>>

\* line 275
ApproveSetStatus(t) ==
    /\ pc[t] = "update"
    /\ match_requests' = SetStatus(match_requests, local[t], ACCEPTED)
    /\ pc' = [pc EXCEPT ![t] = "insert"]
    /\ UNCHANGED <<opportunities, matches, next_match_id, now, ret, local,
                   sweep, profile_store>>

\* lines 278-291
ApproveInsert(t) ==
    /\ pc[t] = "insert"
    /\ matches' = matches \cup {NewMatch(local[t])}
    /\ next_match_id' = next_match_id + 1
    /\ ret' = ApproveResult(local[t], next_match_id, "ok")
    /\ pc' = [pc EXCEPT ![t] = "done"]
    /\ UNCHANGED <<opportunities, match_requests, now, local, sweep, profile_store>>

NextConc ==
    \/ \E in \in CreateOpportunityInputs :
          create_opportunity(in[1], in[2], in[3], in[4], in[5])
    \/ \E u \in Users, o \in OppInputs : create_match_request(u, o)
    \/ \E t \in Threads, r \in RequestIdInputs : ApproveLoad(t, r)
    \/ \E t \in Threads : ApproveCheckCapacity(t)
    \/ \E t \in Threads : ApproveSetStatus(t)
    \/ \E t \in Threads : ApproveInsert(t)

SpecConc == Init /\ [][NextConc]_vars

\* ------------------------------------------------- lifecycle with matching
\* The queries, asked between the calls that create requests and decide them.
NextFind ==
    \/ \E in \in CreateOpportunityInputs :
          create_opportunity(in[1], in[2], in[3], in[4], in[5])
    \/ \E u \in Users, o \in OppInputs : create_match_request(u, o)
    \/ \E r \in RequestIdInputs : approve_match_request(r)
    \/ \E r \in RequestIdInputs : reject_match_request(r)
    \/ \E m \in MatchIdInputs : cancel_match(m)
    \/ \E o \in OppInputs, profiles \in ProfileListInputs,
          min_score \in MinScoreInputs :
          find_matching_volunteers(o, profiles, min_score)
    \/ \E profile \in ProfileInputs, min_score \in MinScoreInputs :
          find_matching_opportunities(profile.user_id, profile, min_score)

SpecFind == Init /\ [][NextFind]_vars

\* ------------------------------------------------- three volunteers
\* The calls of the sequential specification that fill and free slots, made
\* for three volunteers.
NextCapacity ==
    \/ \E in \in CreateOpportunityInputs :
          create_opportunity(in[1], in[2], in[3], in[4], in[5])
    \/ \E u \in Volunteers, o \in OppInputs : create_match_request(u, o)
    \/ \E r \in RequestIdInputs : approve_match_request(r)
    \/ \E r \in RequestIdInputs : reject_match_request(r)
    \/ \E m \in MatchIdInputs : cancel_match(m)

SpecCapacity == Init /\ [][NextCapacity]_vars

\* ------------------------------------------------- approval during a sweep
\* expire_old_requests holds no lock either: one sweep runs, an iteration of
\* its loop at a time, while the caller Approver makes one
\* approve_match_request call.

\* lines 357-358 and the start of the loop of line 360
SweepStart(days_old) ==
    /\ sweep.pc = "start"
    /\ sweep' = [pc |-> "loop", days_old |-> days_old,
                 cutoff_date |-> now - days_old,
                 size |-> Len(match_requests), i |-> 1, expired |-> {}]
    /\ UNCHANGED <<opportunities, match_requests, matches, next_match_id, now,
                   ret, pc, local, profile_store>>

SweepResult(out) ==
    Result("expire_old_requests", NoId, NoId, sweep.days_old, NoId,
           Cardinality(sweep.expired), out)

\* lines 360-367: one step of the loop. The dict iterator raises when the
\* dict has grown since the loop began; at the end of the dict the call
\* returns expired_count.
SweepStep ==
    /\ sweep.pc = "loop"
    /\ IF Len(match_requests) # sweep.size
       THEN /\ ret' = SweepResult("dictionary changed size during iteration")
            /\ sweep' = [sweep EXCEPT !.pc = "done"]
            /\ UNCHANGED match_requests
       ELSE IF sweep.i > sweep.size
       THEN /\ ret' = SweepResult("ok")
            /\ sweep' = [sweep EXCEPT !.pc = "done"]
            /\ UNCHANGED match_requests
       ELSE IF /\ match_requests[sweep.i].status = PENDING
               /\ match_requests[sweep.i].requested_at < sweep.cutoff_date
       THEN /\ match_requests' = SetStatus(match_requests, sweep.i, EXPIRED)
            /\ sweep' = [sweep EXCEPT !.i = @ + 1, !.expired = @ \cup {sweep.i}]
            /\ UNCHANGED ret
       ELSE /\ sweep' = [sweep EXCEPT !.i = @ + 1]
            /\ UNCHANGED <<match_requests, ret>>
    /\ UNCHANGED <<opportunities, matches, next_match_id, now, pc, local,
                   profile_store>>

NextSweep ==
    \/ \E in \in CreateOpportunityInputs :
          create_opportunity(in[1], in[2], in[3], in[4], in[5])
    \/ \E u \in Users, o \in OppInputs : create_match_request(u, o)
    \/ Tick
    \/ \E r \in RequestIdInputs : ApproveLoad(Approver, r)
    \/ ApproveCheckCapacity(Approver)
    \/ ApproveSetStatus(Approver)
    \/ ApproveInsert(Approver)
    \/ \E days_old \in DaysInputs : SweepStart(days_old)
    \/ SweepStep

SpecSweep == Init /\ [][NextSweep]_vars

\* ================================================================ claims
IsActive(i) == match_requests[i].status \in {PENDING, ACCEPTED}

ActiveRequestsOfPair(u, o) == {i \in RequestsOfPair(u, o) : IsActive(i)}

AcceptedRequestsOfPair(u, o) ==
    {i \in RequestsOfPair(u, o) : match_requests[i].status = ACCEPTED}

AcceptedMatchesOf(o) ==
    {x \in matches : x.opportunity_id = o /\ x.status = ACCEPTED}

AcceptedMatchesOfPair(u, o) == {x \in AcceptedMatchesOf(o) : x.user_id = u}

HasLimit(o) ==
    /\ opportunities[o].max_slots # None
    /\ opportunities[o].max_slots[1] > 0

Limit(o) == opportunities[o].max_slots[1]

IsFull(o) == HasLimit(o) /\ Cardinality(AcceptedMatchesOf(o)) = Limit(o)

NoOverbooking ==
    \A o \in DOMAIN opportunities :
        HasLimit(o) => Cardinality(AcceptedMatchesOf(o)) <= Limit(o)

CapacityError == "Opportunity is at maximum capacity"
DuplicateError == "User already has an active request for this opportunity"
NotPendingError == "Can only approve pending match requests"

\* The step is the call op(arg).
Called(op, arg) == ret'.op = op /\ ret'.arg = arg

\* The step is the call create_match_request(u, o).
CalledCreate(u, o) ==
    ret'.op = "create_match_request" /\ ret'.user = u /\ ret'.opp = o

\* C1: in every reachable state each (volunteer, opportunity) pair has at most
\* one request whose status is PENDING or ACCEPTED.
C1_OneActiveRequestPerPair ==
    \A u \in Users, o \in DOMAIN opportunities :
        Cardinality(ActiveRequestsOfPair(u, o)) <= 1

C3_NoOverbookingUnderConcurrency ==
    (\A t1, t2 \in Threads : t1 # t2 => local[t1] # local[t2]) => NoOverbooking

\* C4: cancelling one match of a full opportunity (max_slots = N, N ACCEPTED
\* matches) leaves N - 1 of them, so that every PENDING request of the
\* opportunity can be approved next; an approval made with N - 1 matches
\* succeeds and fills the opportunity; an approval on a full one is refused.
C4_CancelFreesOneSlot ==
    [][/\ \A o \in DOMAIN opportunities :
            (/\ ret'.op = "cancel_match" /\ ret'.out = "True" /\ ret'.opp = o
             /\ IsFull(o))
            => /\ Cardinality(AcceptedMatchesOf(o)') = Limit(o) - 1
               /\ \A r \in DOMAIN match_requests' :
                     (/\ match_requests'[r].opportunity_id = o
                      /\ match_requests'[r].status = PENDING)
                     => ApproveOutcome(r)' = "ok"
       /\ \A r \in DOMAIN match_requests :
            LET o == match_requests[r].opportunity_id
            IN  (/\ Called("approve_match_request", r)
                 /\ match_requests[r].status = PENDING
                 /\ HasLimit(o))
                => IF Cardinality(AcceptedMatchesOf(o)) = Limit(o) - 1
                   THEN /\ ret'.out = "ok"
                        /\ IsFull(o)'
                   ELSE IsFull(o) => ret'.out = CapacityError]_vars

\* C4 witness: a match of a full opportunity has just been cancelled while a
\* request of that opportunity is PENDING.
C4_Witness ==
    /\ ret.op = "cancel_match"
    /\ ret.out = "True"
    /\ HasLimit(ret.opp)
    /\ Cardinality(AcceptedMatchesOf(ret.opp)) = Limit(ret.opp) - 1
    /\ \E r \in DOMAIN match_requests :
          /\ match_requests[r].opportunity_id = ret.opp
          /\ match_requests[r].status = PENDING

\* C5: after cancel_match(m) returns true the match m is still stored, with
\* status REJECTED, and no step removes a match.
C5_CancelKeepsMatch ==
    /\ [](ret.op = "cancel_match" /\ ret.out = "True"
            => \E x \in matches : x.id = ret.arg /\ x.status = REJECTED)
    /\ [][\A x \in matches : \E y \in matches' : y.id = x.id]_vars

\* C6: once a request has left PENDING no step changes its status.
C6_TerminalStates ==
    [][\A r \in DOMAIN match_requests :
          match_requests[r].status # PENDING
          => match_requests'[r].status = match_requests[r].status]_vars

\* C6 as amended: REJECTED and EXPIRED requests never change; an ACCEPTED
\* request changes only to REJECTED, and only in a successful cancel_match
\* of a match of its (volunteer, opportunity) pair.
C6_TerminalStatesAmended ==
    [][\A r \in DOMAIN match_requests :
          /\ match_requests[r].status \in {REJECTED, EXPIRED}
             => match_requests'[r].status = match_requests[r].status
          /\ match_requests[r].status = ACCEPTED
             => \/ match_requests'[r].status = ACCEPTED
                \/ /\ match_requests'[r].status = REJECTED
                   /\ ret'.op = "cancel_match"
                   /\ ret'.out = "True"
                   /\ ret'.user = match_requests[r].user_id
                   /\ ret'.opp = match_requests[r].opportunity_id]_vars

\* C6 witness: a match has just been cancelled and a request of its pair is
\* REJECTED.
C6_Witness ==
    /\ ret.op = "cancel_match"
    /\ ret.out = "True"
    /\ \E r \in RequestsOfPair(ret.user, ret.opp) :
          match_requests[r].status = REJECTED

\* C7: a request that is not PENDING is never PENDING again.
C7_NoReturnToPending ==
    [][\A r \in DOMAIN match_requests :
          match_requests[r].status # PENDING
          => match_requests'[r].status # PENDING]_vars

\* C7 witness: a call has just been made on a request that had left PENDING.
C7_Witness ==
    /\ ret.op \in {"approve_match_request", "reject_match_request"}
    /\ ret.arg \in DOMAIN match_requests
    /\ ret.out \notin {"ok", "True"}
    /\ match_requests[ret.arg].status \in {ACCEPTED, REJECTED, EXPIRED}

\* C8: a match enters the store only in a step that turns a PENDING request
\* of its pair ACCEPTED, and each pair has as many ACCEPTED matches as
\* ACCEPTED requests.
C8_MatchLineage ==
    /\ [](\A u \in Users, o \in DOMAIN opportunities :
            Cardinality(AcceptedMatchesOfPair(u, o))
                = Cardinality(AcceptedRequestsOfPair(u, o)))
    /\ [][\A x \in matches' \ matches :
            /\ Cardinality(matches' \ matches) = 1
            /\ \E r \in RequestsOfPair(x.user_id, x.opportunity_id) :
                  /\ match_requests[r].status = PENDING
                  /\ match_requests'[r].status = ACCEPTED]_vars

\* C8 witness: a match has just been cancelled while its pair keeps another
\* ACCEPTED match.
C8_Witness ==
    /\ ret.op = "cancel_match"
    /\ ret.out = "True"
    /\ AcceptedMatchesOfPair(ret.user, ret.opp) # {}

\* C9: create_match_request(v, o) raises the duplicate error and adds no
\* request whenever some request of the pair is PENDING or ACCEPTED.
C9_DuplicateRefused ==
    [][\A u \in Users, o \in DOMAIN opportunities :
          (CalledCreate(u, o) /\ ActiveRequestsOfPair(u, o) # {})
          => /\ ret'.out = DuplicateError
             /\ match_requests' = match_requests]_vars

\* C10: create_match_request(v, o) on an existing opportunity, when every
\* request of the pair is REJECTED or EXPIRED, appends a PENDING request.
C10_ResubmissionAllowed ==
    [][\A u \in Users, o \in DOMAIN opportunities :
          (CalledCreate(u, o) /\ ActiveRequestsOfPair(u, o) = {})
          => /\ ret'.out = "ok"
             /\ Len(match_requests') = Len(match_requests) + 1
             /\ SubSeq(match_requests', 1, Len(match_requests)) = match_requests
             /\ match_requests'[Len(match_requests')].user_id = u
             /\ match_requests'[Len(match_requests')].opportunity_id = o
             /\ match_requests'[Len(match_requests')].status = PENDING
             /\ match_requests'[Len(match_requests')].requested_at = now]_vars

\* C10 witness: a request has just been created for a pair that also has a
\* REJECTED or EXPIRED request.
C10_Witness ==
    /\ ret.op = "create_match_request"
    /\ ret.out = "ok"
    /\ match_requests[ret.made].status = PENDING
    /\ \E r \in RequestsOfPair(ret.user, ret.opp) :
          match_requests[r].status \in {REJECTED, EXPIRED}

OpportunityMissingError == "Opportunity does not exist"
RejectNotPendingError == "Can only reject pending match requests"

\* The step leaves the request store and the match store as they are.
StoresUnchanged ==
    /\ match_requests' = match_requests
    /\ matches' = matches
    /\ next_match_id' = next_match_id

\* C11: create_match_request on an opportunity id that is not in the
\* opportunity store raises an error and leaves the request store and the
\* match store unchanged.
C11_UnknownOpportunityRefused ==
    [][\A u \in Users, o \in OppInputs :
          (CalledCreate(u, o) /\ o \notin DOMAIN opportunities)
          => /\ ret'.out = OpportunityMissingError
             /\ ret'.made = NoId
             /\ StoresUnchanged]_vars

\* C11 witness: a request on an unknown opportunity has just been refused
\* while requests and matches are stored.
C11_Witness ==
    /\ ret.op = "create_match_request"
    /\ ret.out = OpportunityMissingError
    /\ ret.opp \notin DOMAIN opportunities
    /\ match_requests # << >>
    /\ matches # {}

\* C12: a successful approve_match_request(r) on a PENDING request turns r
\* ACCEPTED and adds exactly one match, with r's volunteer and opportunity,
\* status ACCEPTED and r's score; every other request and match stays.
C12_ApproveEffect ==
    [][\A r \in DOMAIN match_requests :
          (/\ Called("approve_match_request", r)
           /\ ret'.out = "ok"
           /\ match_requests[r].status = PENDING)
          => /\ match_requests' = [match_requests EXCEPT ![r].status = ACCEPTED]
             /\ matches \subseteq matches'
             /\ \A x \in matches : x.id # ret'.made
             /\ matches' \ matches =
                   {[id |-> ret'.made,
                     user_id |-> match_requests[r].user_id,
                     opportunity_id |-> match_requests[r].opportunity_id,
                     status |-> ACCEPTED,
                     score |-> match_requests[r].score]}]_vars

\* C12 witness: a request has just been approved while another request and
\* another match are stored.
C12_Witness ==
    /\ ret.op = "approve_match_request"
    /\ ret.out = "ok"
    /\ Len(match_requests) >= 2
    /\ Cardinality(matches) >= 2

\* C13: approve_match_request on a request that is ACCEPTED, REJECTED or
\* EXPIRED raises the not-pending error and creates no match.
C13_ApproveNotPendingRefused ==
    [][\A r \in DOMAIN match_requests :
          (/\ Called("approve_match_request", r)
           /\ match_requests[r].status \in {ACCEPTED, REJECTED, EXPIRED})
          => /\ ret'.out = NotPendingError
             /\ ret'.made = NoId
             /\ StoresUnchanged]_vars

\* C13 witness: the approval of an EXPIRED request has just been refused.
C13_Witness ==
    /\ ret.op = "approve_match_request"
    /\ ret.out = NotPendingError
    /\ match_requests[ret.arg].status = EXPIRED

\* C14: approve_match_request with a request id that is not in the request
\* store returns None and changes no request and no match.
C14_ApproveUnknownReturnsNone ==
    [][\A r \in RequestIdInputs :
          (Called("approve_match_request", r) /\ r \notin DOMAIN match_requests)
          => /\ ret'.out = "None"
             /\ ret'.made = NoId
             /\ StoresUnchanged]_vars

\* C14 witness: an approval with an unknown id has just returned None while
\* requests and matches are stored.
C14_Witness ==
    /\ ret.op = "approve_match_request"
    /\ ret.out = "None"
    /\ ret.arg \notin DOMAIN match_requests
    /\ match_requests # << >>
    /\ matches # {}

\* The opportunity has max_slots = 2 and two ACCEPTED matches.
TwoOfTwo(o) ==
    /\ opportunities[o].max_slots = Some(2)
    /\ Cardinality(AcceptedMatchesOf(o)) = 2

C16_RejectThenRejectAgain ==
    [][\A r \in DOMAIN match_requests :
          Called("reject_match_request", r)
          => /\ match_requests[r].status = PENDING
                => /\ ret'.out = "True"
                   /\ match_requests' = [match_requests EXCEPT ![r].status = REJECTED]
             /\ match_requests[r].status = REJECTED
                => /\ ret'.out = RejectNotPendingError
                   /\ match_requests' = match_requests]_vars

\* C16 witness: a second reject_match_request on a REJECTED request has just
\* been refused.
C16_Witness ==
    /\ ret.op = "reject_match_request"
    /\ ret.out = RejectNotPendingError
    /\ match_requests[ret.arg].status = REJECTED

\* C17: reject_match_request with an unknown request id and cancel_match with
\* an id that names no stored match (never handed out, or already cancelled)
\* return False and change no request and no match.
C17_UnknownIdsReturnFalse ==
    [][/\ \A r \in RequestIdInputs :
            (Called("reject_match_request", r) /\ r \notin DOMAIN match_requests)
            => ret'.out = "False" /\ StoresUnchanged
       /\ \A m \in MatchIdInputs :
            (Called("cancel_match", m) /\ \A x \in matches : x.id # m)
            => ret'.out = "False" /\ StoresUnchanged]_vars

\* C17 witness: a second cancel_match on a cancelled match has just returned
\* False while another match is stored.
C17_Witness ==
    /\ ret.op = "cancel_match"
    /\ ret.out = "False"
    /\ ret.arg < next_match_id
    /\ matches # {}

\* C18: right after expire_old_requests(D) has returned, no request is left
\* for a second expire_old_requests(D) with the same cutoff to expire: the
\* second run returns 0 and changes no request.
C18_ExpireIdempotent ==
    ret.op = "expire_old_requests"
    => /\ Cardinality(StaleRequests(ret.arg)) = 0
       /\ \A i \in DOMAIN match_requests :
             ~(/\ match_requests[i].status = PENDING
               /\ match_requests[i].requested_at < now - ret.arg)

\* C18 witness: a sweep has just returned 0 although a request older than its
\* cutoff is stored, EXPIRED by the sweep before it.
C18_Witness ==
    /\ ret.op = "expire_old_requests"
    /\ ret.count = 0
    /\ \E r \in DOMAIN match_requests :
          /\ match_requests[r].status = EXPIRED
          /\ match_requests[r].requested_at < now - ret.arg

\* C19: when an approve_match_request(r) call and an expire_old_requests sweep
\* that has looked at r, r being older than its cutoff, have both returned,
\* either r is ACCEPTED with one match and the sweep did not count r, or r is
\* EXPIRED, counted by the sweep, and has no match.
C19_ApproveOrExpire ==
    (/\ pc[Approver] = "done"
     /\ sweep.pc = "done"
     /\ local[Approver] \in DOMAIN match_requests
     /\ local[Approver] < sweep.i
     /\ match_requests[local[Approver]].requested_at < sweep.cutoff_date)
    => LET r == local[Approver]
           made == {x \in matches :
                       /\ x.user_id = RequestUser(r)
                       /\ x.opportunity_id = RequestOpp(r)}
       IN  \/ /\ match_requests[r].status = ACCEPTED
              /\ Cardinality(made) = 1
              /\ r \notin sweep.expired
           \/ /\ match_requests[r].status = EXPIRED
              /\ made = {}
              /\ r \in sweep.expired

\* C20: find_matching_volunteers returns no volunteer who has a PENDING or
\* ACCEPTED request on the opportunity asked about, and
\* find_matching_opportunities returns no opportunity on which the volunteer
\* asked about has a PENDING or ACCEPTED request.
C20_NoActiveCandidateReturned ==
    /\ ret.op = "find_matching_volunteers"
       => \A k \in DOMAIN ret.found :
             ActiveRequestsOfPair(ret.found[k].candidate.user_id, ret.opp) = {}
    /\ ret.op = "find_matching_opportunities"
       => \A k \in DOMAIN ret.found :
             ActiveRequestsOfPair(ret.user, ret.found[k].candidate) = {}

\* The positions of the candidates a query was given that it has to return:
\* not passed over, and scoring min_score or more.
KeptVolunteers ==
    {i \in DOMAIN ret.given :
        /\ ~HasActiveRequest(ret.given[i].user_id, ret.opp)
        /\ calculate_match_score(ret.given[i], opportunities[ret.opp]).total_score
              >= ret.arg}

KeptOpportunities ==
    {o \in DOMAIN opportunities :
        /\ ~HasActiveRequest(ret.user, o)
        /\ calculate_match_score(ret.given[1], opportunities[o]).total_score
              >= ret.arg}

\* found lists each candidate once; key[k] is the input position of found[k].
\* Scores fall along the list and equal scores keep their input order.
OrderedByScore(found, key) ==
    \A j, k \in DOMAIN found :
        j < k => \/ found[j].score.total_score > found[k].score.total_score
                 \/ /\ found[j].score.total_score = found[k].score.total_score
                    /\ key[j] < key[k]

\* C21: the list find_matching_volunteers and find_matching_opportunities
\* return holds exactly the candidates that are not passed over and score
\* min_score or more, each with its score, by descending total_score, equal
\* scores in input order.
C21_ExactlyKeptInScoreOrder ==
    /\ (ret.op = "find_matching_volunteers" /\ OpportunityExists(ret.opp))
       => \E key \in [DOMAIN ret.found -> DOMAIN ret.given] :
             /\ {key[k] : k \in DOMAIN ret.found} = KeptVolunteers
             /\ Len(ret.found) = Cardinality(KeptVolunteers)
             /\ \A k \in DOMAIN ret.found :
                   /\ ret.found[k].candidate = ret.given[key[k]]
                   /\ ret.found[k].score =
                         calculate_match_score(ret.given[key[k]],
                                               opportunities[ret.opp])
             /\ OrderedByScore(ret.found, key)
    /\ (ret.op = "find_matching_volunteers" /\ ~OpportunityExists(ret.opp))
       => ret.found = << >>
    /\ ret.op = "find_matching_opportunities"
       => LET key == [k \in DOMAIN ret.found |-> ret.found[k].candidate]
          IN  /\ {key[k] : k \in DOMAIN ret.found} = KeptOpportunities
              /\ Len(ret.found) = Cardinality(KeptOpportunities)
              /\ \A k \in DOMAIN ret.found :
                    ret.found[k].score =
                       calculate_match_score(ret.given[1],
                                             opportunities[key[k]])
              /\ OrderedByScore(ret.found, key)

\* C21 witness: find_matching_opportunities has just returned a list that
\* leaves out the opportunity on which the volunteer has an active request and
\* holds two opportunities with the same score after one that scores higher.
C21_Witness ==
    /\ ret.op = "find_matching_opportunities"
    /\ \E o \in DOMAIN opportunities :
          /\ HasActiveRequest(ret.user, o)
          /\ o \notin {ret.found[k].candidate : k \in DOMAIN ret.found}
    /\ \E j, k \in DOMAIN ret.found :
          /\ j < k
          /\ ret.found[j].score.total_score = ret.found[k].score.total_score
    /\ \E j, k \in DOMAIN ret.found :
          ret.found[j].score.total_score > ret.found[k].score.total_score

ScoreCalled == ret.op = "calculate_match_score"

\* C22: the total_score calculate_match_score returns and each of its four
\* component scores lie between 0.0 and 1.0.
C22_ScoresInUnitRange ==
    ScoreCalled
    => LET score == ret.found[1]
       IN  /\ score.total_score \in 0..(10 * ScoreOne)
           /\ score.skill_match_score \in 0..ScoreOne
           /\ score.availability_score \in 0..ScoreOne
           /\ score.preference_score \in 0..ScoreOne
           /\ score.distance_score \in 0..ScoreOne

\* C22 witness: a score has been computed with all three tag bonuses applying
\* and the preference score at 1.0.
C22_Witness ==
    /\ ScoreCalled
    /\ {"experience", "leadership", "outdoors"} \subseteq LowerSet(ret.given[1].tags)
    /\ {"lead", "park"} \subseteq ret.given[2].title
    /\ ret.found[1].preference_score = ScoreOne

\* C23: the skill score is 1.0 when the opportunity requires no skill; else
\* it is the share of the case-folded required skills that are among the
\* case-folded skills of the profile.
C23_SkillScoreIsCoverage ==
    ScoreCalled
    => LET held == LowerSet(ret.given[1].skills)
           required == LowerSet(ret.given[2].required_skills)
           skill == ret.found[1].skill_match_score
       IN  /\ required = {} => skill = ScoreOne
           /\ required # {}
              => skill * Cardinality(required)
                    = Cardinality(held \cap required) * ScoreOne
           /\ (required # {} /\ required \subseteq held) => skill = ScoreOne
           /\ (required # {} /\ held \cap required = {}) => skill = 0

\* C23 witness: one of two required skills is held, under another spelling,
\* and the skill score is 0.5.
C23_Witness ==
    /\ ScoreCalled
    /\ Len(ret.given[2].required_skills) = 2
    /\ {ret.given[1].skills[i] : i \in DOMAIN ret.given[1].skills}
          \cap {ret.given[2].required_skills[i] :
                   i \in DOMAIN ret.given[2].required_skills} = {}
    /\ 2 * ret.found[1].skill_match_score = ScoreOne

SkillNames == {"Python", "python", "Java", "Communication", "Go", "Rust"}

Without(required_skills, name) ==
    SelectSeq(required_skills, LAMBDA x : Lower(x) # Lower(name))

\* C24: requiring one more skill that the profile holds never lowers the
\* skill score, and dropping a required skill that the profile lacks never
\* lowers it.
C24_SkillScoreMonotonic ==
    ScoreCalled
    => LET skills == ret.given[1].skills
           required == ret.given[2].required_skills
           held == LowerSet(skills)
       IN  \A name \in SkillNames :
              /\ Lower(name) \in held
                 => calculate_skill_match_score(skills, Append(required, name))
                       >= calculate_skill_match_score(skills, required)
              /\ (Lower(name) \in LowerSet(required) /\ Lower(name) \notin held)
                 => calculate_skill_match_score(skills, Without(required, name))
                       >= calculate_skill_match_score(skills, required)

\* C24 witness: a score has been computed for a profile that holds a skill
\* the opportunity does not require and lacks one that it requires.
C24_Witness ==
    /\ ScoreCalled
    /\ LowerSet(ret.given[1].skills) \ LowerSet(ret.given[2].required_skills) # {}
    /\ LowerSet(ret.given[2].required_skills) \ LowerSet(ret.given[1].skills) # {}
    /\ ret.found[1].skill_match_score \notin {0, ScoreOne}

\* C25: the availability score is 0.0 without availability windows; with n
\* windows it is 1.0 when 4n hours reach min_hours (0 when absent) and
\* 4n / max(min_hours, 1) when they do not.
C25_AvailabilityFromHours ==
    ScoreCalled
    => LET windows == ret.given[1].availability
           hours == 4 * windows
           min_hours == IF ret.given[2].min_hours = None THEN 0
                        ELSE ret.given[2].min_hours[1]
           availability_score == ret.found[1].availability_score
       IN  IF windows = 0 THEN availability_score = 0
           ELSE IF hours >= min_hours THEN availability_score = ScoreOne
           ELSE availability_score * (IF min_hours > 1 THEN min_hours ELSE 1)
                   = hours * ScoreOne

\* Two windows of one day whose time ranges share more than an end point.
Overlapping(w1, w2) ==
    /\ w1.weekday = w2.weekday
    /\ w1.start < w2.end
    /\ w2.start < w1.end

\* C26: no stored profile holds two availability windows on the same weekday
\* whose time ranges overlap.
C26_NoOverlappingWindows ==
    \A u \in DOMAIN profile_store :
        \A i, j \in DOMAIN profile_store[u].availability :
            i # j => ~Overlapping(profile_store[u].availability[i],
                                  profile_store[u].availability[j])

ApproveErrors ==
    {NotPendingError, "Opportunity no longer exists", CapacityError}

\* C27: an approve_match_request call that raises (request not PENDING,
\* opportunity missing, opportunity full) changes no request and no match. A
\* request just refused for capacity is PENDING: reject_match_request on it
\* succeeds, a sweep whose cutoff lies after it expires it, and an approval of
\* a PENDING request of an opportunity with a free slot succeeds, whatever was
\* refused before.
C27_FailedApprovalChangesNothing ==
    /\ [][\A r \in RequestIdInputs :
             /\ (Called("approve_match_request", r) /\ ret'.out \in ApproveErrors)
                => StoresUnchanged
             /\ (/\ Called("approve_match_request", r)
                 /\ r \in DOMAIN match_requests
                 /\ match_requests[r].status = PENDING
                 /\ \/ ~HasLimit(match_requests[r].opportunity_id)
                    \/ Cardinality(AcceptedMatchesOf(match_requests[r].opportunity_id))
                          < Limit(match_requests[r].opportunity_id))
                => ret'.out = "ok"]_vars
    /\ [](ret.op = "approve_match_request" /\ ret.out = CapacityError
          => /\ match_requests[ret.arg].status = PENDING
             /\ RejectOutcome(ret.arg) = "True"
             /\ \A d \in DaysInputs :
                   match_requests[ret.arg].requested_at < now - d
                   => ret.arg \in StaleRequests(d))

\* C27 witness: an approval has just been refused for capacity and the
\* request is PENDING and old enough for a sweep.
C27_Witness ==
    /\ ret.op = "approve_match_request"
    /\ ret.out = CapacityError
    /\ match_requests[ret.arg].status = PENDING
    /\ match_requests[ret.arg].requested_at < now

\* C28: expire_old_requests(D) sets to EXPIRED the requests that are PENDING
\* and were made before now - D, and no other; it returns their number and
\* changes no other request and no match.
C28_ExpireFrame ==
    [][\A d \in DaysInputs :
          Called("expire_old_requests", d)
          => LET old == {i \in DOMAIN match_requests :
                            /\ match_requests[i].status = PENDING
                            /\ match_requests[i].requested_at < now - d}
             IN  /\ DOMAIN match_requests' = DOMAIN match_requests
                 /\ \A i \in DOMAIN match_requests :
                       match_requests'[i] =
                          IF i \in old
                          THEN [match_requests[i] EXCEPT !.status = EXPIRED]
                          ELSE match_requests[i]
                 /\ ret'.count = Cardinality(old)
                 /\ matches' = matches
                 /\ next_match_id' = next_match_id]_vars

\* C28 witness: a sweep has just expired a request and left alone a PENDING
\* request that is not old enough and an older request that is ACCEPTED or
\* REJECTED.
C28_Witness ==
    /\ ret.op = "expire_old_requests"
    /\ ret.count >= 1
    /\ \E i \in DOMAIN match_requests :
          /\ match_requests[i].status = PENDING
          /\ match_requests[i].requested_at >= now - ret.arg
    /\ \E i \in DOMAIN match_requests :
          /\ match_requests[i].status \in {ACCEPTED, REJECTED}
          /\ match_requests[i].requested_at < now - ret.arg

\* C29: no volunteer holds more than one ACCEPTED match on one opportunity.
C29_OneAcceptedMatchPerPair ==
    \A u \in Users, o \in DOMAIN opportunities :
        Cardinality(AcceptedMatchesOfPair(u, o)) <= 1

\* C30: after a successful cancel_match on a match of volunteer v for
\* opportunity o, v has no PENDING or ACCEPTED request for o, and
\* create_match_request(v, o) would succeed.
C30_CancelClearsThePair ==
    [][\A m \in MatchIdInputs, u \in Users, o \in DOMAIN opportunities :
          (/\ Called("cancel_match", m) /\ ret'.out = "True"
           /\ ret'.user = u /\ ret'.opp = o)
          => /\ ActiveRequestsOfPair(u, o)' = {}
             /\ CreateMatchRequestError(u, o)' = "ok"]_vars

====
